---- MODULE Spec2Model ----
(***************************************************************************)
(* Newton's method for optimization (newton.py): optimize, deriv and       *)
(* optimize_multivar.                                                      *)
(*                                                                         *)
(* Numbers.  A Python float is modelled by an exact rational <<n, d>> in   *)
(* lowest terms with d > 0, extended with the three IEEE values the code   *)
(* can produce: +inf = <<1, 0>>, -inf = <<-1, 0>>, nan = <<0, 0>>.         *)
(* Rounding is not modelled except where the code's outcome rests on it:   *)
(* the underflow of exp to zero, and stop_crit + 1 for an infinite         *)
(* stop_crit.  The thresholds in the body of the code (1, 2, 1e8) keep     *)
(* their values.  The two default arguments (epsilon and stop_crit, both   *)
(* 1e-5 in the source) are fractions whose squares fit TLC's 32-bit        *)
(* integers; every formula below is stated in terms of the names, not of   *)
(* the values.                                                             *)
(***************************************************************************)
EXTENDS Integers, Sequences, FiniteSets, TLC

VARIABLES
    entry,      \* which function was called: "optimize" or "optimize_multivar"
    fun,        \* the argument fun
    start,      \* the argument start: [type |-> Python type, val |-> value]
    stop_crit,  \* the argument stop_crit
    pc,         \* "call" (entered), "loop" (at the while test), "done"
    x_t,        \* local x_t (a zero of start's shape until it is assigned)
    step_diff,  \* local step_diff
    outcome,    \* "none" while running, then how the call ended
    ret,        \* the returned tuple (optimizer, optimum) of a success
    iters,      \* Newton updates performed (counted up to MaxIters)
    evals       \* the points at which fun has been evaluated

vars == <<entry, fun, start, stop_crit, pc, x_t, step_diff, outcome, ret,
          iters, evals>>

---------------------------------------------------------------------------
(* Bounds of the model.                                                    *)

\* exp(x) is representable down to 2^(-MinExp); below that it underflows to 0.
MinExp == 4
\* The counter iters stops counting at MaxIters.
MaxIters == 3
\* Largest norm of a vector with two nonzero coordinates.
MaxRoot == 8

---------------------------------------------------------------------------
(* Extended rational arithmetic.                                           *)

\* Python evaluates the operands of an operation once, before it operates:
\* each operation binds the values of its operands before it operates on them.

AbsOf(i) == IF i < 0 THEN -i ELSE i
Abs(i) == CHOOSE r \in {AbsOf(v) : v \in {i}} : TRUE

SignOf(i) == IF i < 0 THEN -1 ELSE IF i > 0 THEN 1 ELSE 0
Sign(i) == CHOOSE r \in {SignOf(v) : v \in {i}} : TRUE

RECURSIVE Gcd(_, _)
GcdOf(a, b) == IF b = 0 THEN a ELSE Gcd(b, a % b)
Gcd(a, b) == CHOOSE r \in {GcdOf(p[1], p[2]) : p \in {<<a, b>>}} : TRUE

\* n/d in lowest terms, d # 0.
RatOf(n, d) ==
    LET g == Gcd(Abs(n), Abs(d))
        s == IF d < 0 THEN -1 ELSE 1
    IN  <<(s * n) \div g, (s * d) \div g>>
Rat(n, d) == CHOOSE r \in {RatOf(p[1], p[2]) : p \in {<<n, d>>}} : TRUE

Zero == <<0, 1>>
One == <<1, 1>>
Two == <<2, 1>>
Inf == <<1, 0>>
NegInf == <<-1, 0>>
NaN == <<0, 0>>

IsNaN(a) == a = NaN
IsFinite(a) == a[2] # 0

NegOf(a) == <<-a[1], a[2]>>
RNeg(a) == CHOOSE r \in {NegOf(v) : v \in {a}} : TRUE

AddOf(a, b) ==
    IF IsNaN(a) \/ IsNaN(b) THEN NaN
    ELSE IF ~IsFinite(a) /\ ~IsFinite(b) THEN (IF a = b THEN a ELSE NaN)
    ELSE IF ~IsFinite(a) THEN a
    ELSE IF ~IsFinite(b) THEN b
    ELSE Rat(a[1] * b[2] + b[1] * a[2], a[2] * b[2])
RAdd(a, b) == CHOOSE r \in {AddOf(p[1], p[2]) : p \in {<<a, b>>}} : TRUE

RSub(a, b) == RAdd(a, RNeg(b))

MulOf(a, b) ==
    IF IsNaN(a) \/ IsNaN(b) THEN NaN
    ELSE IF IsFinite(a) /\ IsFinite(b) THEN Rat(a[1] * b[1], a[2] * b[2])
    ELSE IF a[1] = 0 \/ b[1] = 0 THEN NaN
    ELSE <<Sign(a[1]) * Sign(b[1]), 0>>
RMul(a, b) == CHOOSE r \in {MulOf(p[1], p[2]) : p \in {<<a, b>>}} : TRUE

\* IEEE division, as numpy scalars divide: x/0 is +-inf, and 0/0 is nan.
DivOf(a, b) ==
    IF IsNaN(a) \/ IsNaN(b) THEN NaN
    ELSE IF ~IsFinite(a) /\ ~IsFinite(b) THEN NaN
    ELSE IF ~IsFinite(a) THEN <<a[1] * (IF b[1] < 0 THEN -1 ELSE 1), 0>>
    ELSE IF ~IsFinite(b) THEN Zero
    ELSE IF b[1] = 0 THEN <<Sign(a[1]), 0>>
    ELSE Rat(a[1] * b[2], a[2] * b[1])
RDiv(a, b) == CHOOSE r \in {DivOf(p[1], p[2]) : p \in {<<a, b>>}} : TRUE

\* a < b; every comparison with nan is false.
LtOf(a, b) ==
    IF IsNaN(a) \/ IsNaN(b) THEN FALSE
    ELSE IF ~IsFinite(a) /\ ~IsFinite(b) THEN a[1] < b[1]
    ELSE a[1] * b[2] < b[1] * a[2]
RLt(a, b) == CHOOSE r \in {LtOf(p[1], p[2]) : p \in {<<a, b>>}} : TRUE

LeOf(a, b) == ~IsNaN(a) /\ ~IsNaN(b) /\ (a = b \/ RLt(a, b))
RLe(a, b) == CHOOSE r \in {LeOf(p[1], p[2]) : p \in {<<a, b>>}} : TRUE

AbsValOf(a) == <<Abs(a[1]), a[2]>>
RAbs(a) == CHOOSE r \in {AbsValOf(v) : v \in {a}} : TRUE

RECURSIVE Pow2(_)
Pow2(k) == IF k = 0 THEN 1 ELSE 2 * Pow2(k - 1)

---------------------------------------------------------------------------
(* Program constants.                                                      *)

\* deriv's default epsilon.
Epsilon == Rat(1, 2)
\* optimize's and optimize_multivar's default stop_crit.
DefaultStopCrit == Rat(1, 4)
\* the runaway bound 1e8.
DivergeBound == <<100000000, 1>>

---------------------------------------------------------------------------
(* The functions handed to the optimizer.  The code sees fun only through  *)
(* its values, so a function is a descriptor that Eval evaluates.          *)

\* A plain number passed as fun: not callable.
NotAFunction == [kind |-> "number", np |-> FALSE]

\* lambda x: a*(x - m)**2 + c, a quadratic with vertex m (Python floats).
Quad(a, m, c) == [kind |-> "quad", np |-> FALSE, a |-> a, m |-> m, c |-> c]

\* numpy.exp, as newton_test.py passes it (numpy scalars).
Exp == [kind |-> "exp", np |-> TRUE]

\* exp on the floats of the model: the value doubles with every Epsilon,
\* and underflows to zero below 2^(-MinExp).
ExpVal(x) ==
    IF IsNaN(x) THEN NaN
    ELSE IF x = Inf THEN Inf
    ELSE IF x = NegInf THEN Zero
    ELSE LET q == RDiv(x, Epsilon)
             k == q[1] \div q[2]
         IN  IF k < -MinExp THEN Zero
             ELSE IF k >= 0 THEN <<Pow2(k), 1>>
             ELSE <<1, Pow2(-k)>>

\* A function given by its values near finitely many points and 0 elsewhere.
\* Piece <<p, A, B>> sets f(p) = 0, f(p + e) = e*A, f(p + 2e) = e*e*B + 2*e*A,
\* so that the difference quotients at p are A and B (e = Epsilon).
Big == DivergeBound

TabPieces ==
    { <<Zero, <<-2, 1>>, One>>,                      \* 0 -> 2
      <<Two, Two, One>>,                             \* 2 -> 0
      <<<<12, 1>>, <<-3, 2>>, One>>,                 \* 12 -> 13.5
      <<<<27, 2>>, <<-3, 4>>, One>>,                 \* 13.5 -> 14.25
      <<<<57, 4>>, <<-1, 4>>, One>>,                 \* 14.25 -> 14.5
      <<<<20, 1>>, <<-3, 2>>, One>>,                 \* 20 -> 21.5
      <<<<43, 2>>, <<-7, 2>>, One>>,                 \* 21.5 -> 25
      <<<<30, 1>>, One, Zero>>,                      \* f'' = 0
      <<<<40, 1>>, RNeg(RAdd(Big, One)), One>>,      \* 40 -> 1e8 + 41
      <<RSub(Big, <<3, 2>>), <<-2, 1>>, One>>,       \* 1e8 - 1.5 -> 1e8 + 0.5
      <<RAdd(Big, One), Zero, One>>,                 \* 1e8 + 1 stays
      <<RAdd(RNeg(Big), <<3, 2>>), <<5, 2>>, One>>,  \* -1e8 + 1.5 -> -1e8 - 1
      <<RSub(RNeg(Big), One), Zero, One>> }          \* -1e8 - 1 stays

PiecePts(pc3) ==
    {pc3[1], RAdd(pc3[1], Epsilon), RAdd(pc3[1], RMul(Two, Epsilon))}

TabPts ==
    [x \in UNION {PiecePts(pc3) : pc3 \in TabPieces} |->
        LET pc3 == CHOOSE q \in TabPieces : x \in PiecePts(q)
            p == pc3[1]
            A == pc3[2]
            B == pc3[3]
        IN  IF x = p THEN Zero
            ELSE IF x = RAdd(p, Epsilon) THEN RMul(Epsilon, A)
            ELSE RAdd(RMul(RMul(Epsilon, Epsilon), B),
                      RMul(Two, RMul(Epsilon, A)))]

Tab == [kind |-> "tab", np |-> FALSE]

\* The check left out: every fun passes.
CallableUnchecked(f) == f.kind = f.kind

\* callable(fun)
Callable(f) == f.kind # "number"

\* deriv(fun, epsilon): the closure first_deriv, which keeps fun and epsilon.
deriv(f, epsilon) == [kind |-> "deriv", np |-> f.np, of |-> f, epsilon |-> epsilon]

RECURSIVE Eval(_, _)

\* A backward difference quotient in place of the forward one.
first_derivBackward(f, epsilon, x) ==
    RDiv(RSub(Eval(f, x), Eval(f, RSub(x, epsilon))), epsilon)

\* first_deriv(x) of deriv(fun, epsilon): (fun(x + epsilon) - fun(x)) / epsilon
first_deriv(f, epsilon, x) ==
    RDiv(RSub(Eval(f, RAdd(x, epsilon)), Eval(f, x)), epsilon)

\* fun(x)
Eval(f, x) ==
    CASE f.kind = "deriv" -> first_deriv(f.of, f.epsilon, x)
      [] f.kind = "quad" ->
            LET d == RSub(x, f.m) IN RAdd(RMul(f.a, RMul(d, d)), f.c)
      [] f.kind = "exp" -> ExpVal(x)
      [] f.kind = "tab" -> IF x \in DOMAIN TabPts THEN TabPts[x] ELSE Zero
      [] OTHER -> Zero

\* The points at which a call f(x) evaluates the function underneath.
RECURSIVE EvalPts(_, _)
EvalPts(f, x) ==
    IF f.kind = "deriv"
    THEN EvalPts(f.of, RAdd(x, f.epsilon)) \cup EvalPts(f.of, x)
    ELSE {x}

---------------------------------------------------------------------------
(* optimize(start, fun, stop_crit)                                         *)

\* type(start) is int or type(start) is float: the exact type, no subtype.
StartIsNumber(t) == t = "int" \/ t = "float"

\* step_diff = stop_crit + 1, in floating point: inf + 1 is inf.
InitialStepDiff(sc) == RAdd(sc, One)

\* the while test: step_diff > stop_crit
LoopCond(sd, sc) == RLt(sc, sd)

\* step_diff_new > 2 * step_diff
StepGrew(new, old) == RLt(RMul(Two, old), new)

\* The bound taken on the wrong side: x_t < -1e8.
DivergingBelow(x) == RLt(x, RNeg(DivergeBound))

\* x_t > 1e8
Diverging(x) == RLt(DivergeBound, x)

\* deriv(fun)(x_t) and deriv(deriv(fun))(x_t), with the default epsilon.
FirstDeriv(f, x) == Eval(deriv(f, Epsilon), x)
SecondDeriv(f, x) == Eval(deriv(deriv(f, Epsilon), Epsilon), x)

\* Every division by zero raising, numpy's included.
DivisionFaultsAlways(f, x) == SecondDeriv(f, x) = Zero

\* Python floats raise ZeroDivisionError on x / 0.0; numpy scalars do not.
DivisionFaults(f, x) == ~f.np /\ SecondDeriv(f, x) = Zero

\* x_t - deriv(fun)(x_t) / deriv(deriv(fun))(x_t)
NewtonUpdate(f, x) == RSub(x, RDiv(FirstDeriv(f, x), SecondDeriv(f, x)))

UpdatePts(f, x) ==
    EvalPts(deriv(f, Epsilon), x) \cup EvalPts(deriv(deriv(f, Epsilon), Epsilon), x)

Bump(n) == IF n < MaxIters THEN n + 1 ELSE n

Finish(how) == pc' = "done" /\ outcome' = how

\* Lines 27-38: the two argument checks, then the initialisation.
Validate ==
    /\ entry = "optimize"
    /\ pc = "call"
    /\ IF ~Callable(fun) \/ ~StartIsNumber(start.type)
       THEN /\ Finish("TypeError")
            /\ UNCHANGED <<x_t, step_diff>>
       ELSE /\ step_diff' = InitialStepDiff(stop_crit)
            /\ x_t' = start.val
            /\ pc' = "loop"
            /\ UNCHANGED outcome
    /\ UNCHANGED <<entry, fun, start, stop_crit, ret, iters, evals>>

\* Lines 40-50: one pass of the while loop.
Iterate ==
    /\ entry = "optimize"
    /\ pc = "loop"
    /\ LoopCond(step_diff, stop_crit)
    /\ evals' = evals \cup UpdatePts(fun, x_t)
    /\ IF DivisionFaults(fun, x_t)
       THEN /\ Finish("ZeroDivisionError")
            /\ UNCHANGED <<x_t, step_diff, iters>>
       ELSE LET x_t_plus_one == NewtonUpdate(fun, x_t)
                step_diff_new == RAbs(RSub(x_t_plus_one, x_t))
            IN  /\ x_t' = x_t_plus_one
                /\ iters' = Bump(iters)
                /\ IF StepGrew(step_diff_new, step_diff)
                   THEN /\ Finish("NotConverged")
                        /\ UNCHANGED step_diff
                   ELSE /\ step_diff' = step_diff_new
                        /\ IF Diverging(x_t_plus_one)
                           THEN Finish("RuntimeError")
                           ELSE UNCHANGED <<pc, outcome>>
    /\ UNCHANGED <<entry, fun, start, stop_crit, ret>>

\* Line 52: return (x_t, fun(x_t)) once the while test fails.
Return ==
    /\ entry = "optimize"
    /\ pc = "loop"
    /\ ~LoopCond(step_diff, stop_crit)
    /\ ret' = <<x_t, Eval(fun, x_t)>>
    /\ evals' = evals \cup {x_t}
    /\ Finish("Success")
    /\ UNCHANGED <<entry, fun, start, stop_crit, x_t, step_diff, iters>>

---------------------------------------------------------------------------
(* optimize_multivar(start, fun, stop_crit), on vectors of length two.     *)

\* lambda v: a[1]*(v[1] - c[1])**2 + a[2]*(v[2] - c[2])**2
SumSq(a, c) == [kind |-> "sumsq", np |-> TRUE, a |-> a, c |-> c]

MvEval(f, v) ==
    LET dx == RSub(v[1], f.c[1])
        dy == RSub(v[2], f.c[2])
    IN  RAdd(RMul(f.a[1], RMul(dx, dx)), RMul(f.a[2], RMul(dy, dy)))

\* nd.Gradient(fun)(x_t) and nd.Hessian(fun)(x_t): the exact gradient and
\* Hessian of the function.
Gradient(f, v) ==
    << RMul(Two, RMul(f.a[1], RSub(v[1], f.c[1]))),
       RMul(Two, RMul(f.a[2], RSub(v[2], f.c[2]))) >>

Hessian(f, v) ==
    << <<RMul(Two, f.a[1]), Zero>>, <<Zero, RMul(Two, f.a[2])>> >>

Det(h) == RSub(RMul(h[1][1], h[2][2]), RMul(h[1][2], h[2][1]))

\* scila.solve(h, g), which raises LinAlgError on a singular h.
Singular(h) == Det(h) = Zero

Solve(h, g) ==
    << RDiv(RSub(RMul(g[1], h[2][2]), RMul(h[1][2], g[2])), Det(h)),
       RDiv(RSub(RMul(h[1][1], g[2]), RMul(h[2][1], g[1])), Det(h)) >>

VSub(u, v) == <<RSub(u[1], v[1]), RSub(u[2], v[2])>>

\* npla.norm(v), exact: the vectors of the model have a rational norm.
Norm(v) ==
    IF v[2] = Zero THEN RAbs(v[1])
    ELSE IF v[1] = Zero THEN RAbs(v[2])
    ELSE LET sq == RAdd(RMul(v[1], v[1]), RMul(v[2], v[2]))
         IN  <<CHOOSE n \in 0..MaxRoot : n * n = sq[1], 1>>

\* npla.norm(x_t) > 1e8
MvDiverging(v) == RLt(DivergeBound, Norm(v))

\* Lines 99-106: the argument check, then the initialisation.
ValidateMv ==
    /\ entry = "optimize_multivar"
    /\ pc = "call"
    /\ IF ~Callable(fun)
       THEN /\ Finish("TypeError")
            /\ UNCHANGED <<x_t, step_diff>>
       ELSE /\ step_diff' = InitialStepDiff(stop_crit)
            /\ x_t' = start.val
            /\ pc' = "loop"
            /\ UNCHANGED outcome
    /\ UNCHANGED <<entry, fun, start, stop_crit, ret, iters, evals>>

\* Lines 108-121: one pass of the while loop.
IterateMv ==
    /\ entry = "optimize_multivar"
    /\ pc = "loop"
    /\ LoopCond(step_diff, stop_crit)
    /\ evals' = evals \cup {x_t}
    /\ LET h == Hessian(fun, x_t)
           g == Gradient(fun, x_t)
       IN  IF Singular(h)
           THEN /\ Finish("LinAlgError")
                /\ UNCHANGED <<x_t, step_diff, iters>>
           ELSE LET x_t_plus_one == VSub(x_t, Solve(h, g))
                    step_diff_new == Norm(VSub(x_t_plus_one, x_t))
                IN  /\ x_t' = x_t_plus_one
                    /\ iters' = Bump(iters)
                    /\ IF StepGrew(step_diff_new, step_diff)
                       THEN /\ Finish("NotConverged")
                            /\ UNCHANGED step_diff
                       ELSE /\ step_diff' = step_diff_new
                            /\ IF MvDiverging(x_t_plus_one)
                               THEN Finish("RuntimeError")
                               ELSE UNCHANGED <<pc, outcome>>
    /\ UNCHANGED <<entry, fun, start, stop_crit, ret>>

\* Line 123: return (x_t, fun(x_t)) once the while test fails.
ReturnMv ==
    /\ entry = "optimize_multivar"
    /\ pc = "loop"
    /\ ~LoopCond(step_diff, stop_crit)
    /\ ret' = <<x_t, MvEval(fun, x_t)>>
    /\ evals' = evals \cup {x_t}
    /\ Finish("Success")
    /\ UNCHANGED <<entry, fun, start, stop_crit, x_t, step_diff, iters>>

---------------------------------------------------------------------------
(* The calls of the model.                                                 *)

StopCrits == {DefaultStopCrit, Rat(1, 2), Inf}

NumberTypes == {"int", "float", "float64"}
OtherTypes == {"str", "list", "NoneType"}

Quads ==
    { Quad(One, Zero, Zero),                   \* x**2
      Quad(<<-1, 1>>, One, Two),               \* 2 - (x - 1)**2
      Quad(Two, <<-3, 2>>, One),               \* 2*(x + 1.5)**2 + 1
      Quad(One, RAdd(Big, One), Zero),         \* vertex above 1e8
      Quad(One, RSub(RNeg(Big), One), Zero) }  \* vertex below -1e8

SmallStarts ==
    {<<-5, 1>>, <<-1, 1>>, <<-1, 4>>, Zero, <<1, 2>>, One, Two, <<3, 1>>}

\* The starts tried with each function: points at which its values fit.
StartsOf(f) ==
    CASE f.kind = "quad" ->
            IF RLt(Big, f.m) THEN {Big}
            ELSE IF RLt(f.m, RNeg(Big)) THEN {RNeg(Big)}
            ELSE SmallStarts
      [] f.kind = "exp" ->
            {One, Zero, Two, <<1, 2>>, RMul(<<-(MinExp + 4), 1>>, Epsilon)}
      [] f.kind = "tab" -> {pc3[1] : pc3 \in TabPieces}
      [] OTHER -> {Zero, One, <<1, 2>>}

InitScalar ==
    /\ entry = "optimize"
    /\ \E f \in {NotAFunction, Exp, Tab} \cup Quads, sc \in StopCrits :
          /\ fun = f
          /\ stop_crit = sc
          /\ \/ \E t \in NumberTypes, v \in StartsOf(f) :
                   /\ t = "int" => v[2] = 1
                   /\ start = [type |-> t, val |-> v]
             \/ \E t \in OtherTypes :
                   /\ f \in {NotAFunction, Exp}
                   /\ start = [type |-> t, val |-> Zero]

MvFuns ==
    { SumSq(<<One, One>>, <<Zero, Zero>>),                \* x**2 + y**2
      SumSq(<<One, One>>, <<RAdd(Big, One), Zero>>),      \* minimum beyond 1e8
      SumSq(<<One, One>>, <<RSub(RNeg(Big), One), Zero>>),
      SumSq(<<One, One>>, <<RAdd(Big, <<1, 4>>), Zero>>),
      SumSq(<<One, Zero>>, <<Zero, Zero>>) }              \* x**2: singular Hessian

MvStartsOf(f) ==
    IF f.kind = "sumsq" /\ f.c = <<Zero, Zero>>
    THEN { <<Zero, Zero>>, <<One, Zero>>, <<Zero, Two>>, <<<<1, 4>>, Zero>>,
           <<Zero, <<-5, 2>>>>, <<<<3, 1>>, Zero>>, <<<<3, 1>>, <<4, 1>>>>,
           <<<<-4, 1>>, <<3, 1>>>>, <<Big, Zero>>, <<Zero, RNeg(Big)>> }
    ELSE { <<Zero, Zero>>, <<Big, Zero>>, <<RNeg(Big), Zero>> }

InitMv ==
    /\ entry = "optimize_multivar"
    /\ \E f \in MvFuns \cup {NotAFunction}, sc \in StopCrits \ {Inf} :
          /\ fun = f
          /\ stop_crit = sc
          /\ \E v \in MvStartsOf(f) : start = [type |-> "list", val |-> v]

Init ==
    /\ InitScalar \/ InitMv
    /\ pc = "call"
    /\ x_t = IF entry = "optimize" THEN Zero ELSE <<Zero, Zero>>
    /\ step_diff = Zero
    /\ outcome = "none"
    /\ ret = <<>>
    /\ iters = 0
    /\ evals = {}

Next == Validate \/ Iterate \/ Return \/ ValidateMv \/ IterateMv \/ ReturnMv

Spec == Init /\ [][Next]_vars

\* optimize runs to completion: nothing else is scheduled.
FairSpec == Spec /\ WF_vars(Next)

---------------------------------------------------------------------------
(* Properties.                                                             *)

\* |x_t|: the absolute value in optimize, the Euclidean norm in
\* optimize_multivar.
Magnitude(x) == IF entry = "optimize" THEN RAbs(x) ELSE Norm(x)

\* The difference of two iterates.
VSubOrSub(u, v) == IF entry = "optimize" THEN RSub(u, v) ELSE VSub(u, v)

\* start is a Python int or float, of the exact type or of a subtype.
RealStart == start.type \in NumberTypes

\* C1: a call of optimize or optimize_multivar whose fun is not callable
\* ends in the invalid-argument fault before any iteration: no update was
\* made, fun was evaluated nowhere and nothing is returned.
C1_NonCallableRejected ==
    (fun = NotAFunction /\ pc # "call") =>
        /\ pc = "done"
        /\ outcome = "TypeError"
        /\ iters = 0
        /\ evals = {}
        /\ ret = <<>>

C1_Witness ==
    fun = NotAFunction /\ pc = "done" /\ entry = "optimize_multivar"

\* C2: with a callable fun, optimize raises the invalid-argument fault
\* exactly when start is not a real number; an int, a float or a value of a
\* float subtype (numpy float64) enters the loop.
C2_StartValidation ==
    (entry = "optimize" /\ Callable(fun) /\ pc # "call") =>
        ((outcome = "TypeError") <=> ~RealStart)

\* C3: once an iteration has accepted a step (the growth check passed) and
\* the committed iterate has magnitude above 1e8, the call has ended in the
\* divergence error; and no success tuple holds an optimizer of magnitude
\* above 1e8.  Stated for the calls with a finite stop_crit.
C3_MagnitudeBound ==
    (IsFinite(stop_crit) /\ iters > 0 /\ outcome # "NotConverged"
        /\ RLt(DivergeBound, Magnitude(x_t)))
    => (outcome = "RuntimeError" /\ ret = <<>>)

\* C4: optimize(1, exp) with the default stop_crit terminates, and with the
\* non-convergence signal.
C4_Call ==
    IF entry = "optimize" /\ fun.kind = "exp"
    THEN start = [type |-> "int", val |-> One] /\ stop_crit = DefaultStopCrit
    ELSE FALSE

C4_Signalled == C4_Call /\ pc = "done" /\ outcome = "NotConverged"

C5_Quadratic ==
    IF entry = "optimize" /\ fun.kind = "quad"
    THEN StartIsNumber(start.type) /\ IsFinite(stop_crit)
    ELSE FALSE

\* C5: for a quadratic and every real start with |start| <= 1e8,
\* optimize returns a success tuple whose optimizer x* has
\* |deriv(fun)(x*)| <= stop_crit, never the non-convergence signal or an error.
C5_QuadraticAlwaysConverges ==
    (C5_Quadratic /\ RLe(RAbs(start.val), DivergeBound) /\ pc = "done") =>
        /\ outcome = "Success"
        /\ RLe(RAbs(FirstDeriv(fun, ret[1])), stop_crit)

C6_Function == SumSq(<<One, One>>, <<Zero, Zero>>)

C6_Call ==
    IF entry = "optimize_multivar" /\ fun = C6_Function
    THEN /\ stop_crit = DefaultStopCrit
         /\ start.val # <<Zero, Zero>>
         /\ RLe(Norm(start.val), DivergeBound)
    ELSE FALSE

\* C6: for x^2 + y^2 and the default stop_crit, from every
\* nonzero start of norm at most 1e8 the call returns ((0, 0), 0).
C6_SumSqAlwaysConverges ==
    (C6_Call /\ pc = "done") =>
        (outcome = "Success" /\ ret = <<<<Zero, Zero>>, Zero>>)

C7_Valid ==
    IF entry = "optimize"
    THEN Callable(fun) /\ StartIsNumber(start.type) /\ RLt(Zero, stop_crit)
    ELSE FALSE

C8_Candidate ==
    IF entry = "optimize" THEN NewtonUpdate(fun, x_t)
    ELSE VSub(x_t, Solve(Hessian(fun, x_t), Gradient(fun, x_t)))

C8_NewStep == Magnitude(VSubOrSub(C8_Candidate, x_t))

\* C8: in a pass of the loop that computes a step, (a) when the new step is
\* more than twice step_diff the result is the non-convergence signal and
\* x_t and step_diff keep their values; otherwise the step is committed, and
\* (b) when the committed iterate's magnitude is above 1e8 the result is the
\* divergence error, whatever the step size; otherwise the loop test follows.
C8_CheckOrder ==
    [][(pc = "loop" /\ RLt(stop_crit, step_diff)
          /\ outcome' \notin {"ZeroDivisionError", "LinAlgError"}) =>
         IF StepGrew(C8_NewStep, step_diff)
         THEN /\ outcome' = "NotConverged"
              /\ x_t' = x_t
              /\ step_diff' = step_diff
         ELSE /\ x_t' = C8_Candidate
              /\ step_diff' = C8_NewStep
              /\ IF RLt(DivergeBound, Magnitude(x_t'))
                 THEN outcome' = "RuntimeError"
                 ELSE pc' = "loop"]_vars

\* C9: for every stop_crit, optimize returns a success tuple only after at
\* least one Newton update and only when the last accepted step is
\* <= stop_crit; the tuple is (x_t, fun(x_t)).
C9_SuccessAfterUpdate ==
    (entry = "optimize" /\ outcome = "Success") =>
        /\ iters >= 1
        /\ RLe(step_diff, stop_crit)
        /\ ret = <<x_t, Eval(fun, x_t)>>

\* C10: a pass of optimize's loop computes x_t - f'(x_t)/f''(x_t), where
\* f'(x) = (fun(x+e) - fun(x))/e and f''(x) = (fun(x+2e) - 2 fun(x+e) +
\* fun(x))/e^2 for the default epsilon e; it evaluates fun at x_t, x_t + e
\* and x_t + 2e only, and changes nothing else.
C10_NewtonUpdate ==
    [][(entry = "optimize" /\ pc = "loop" /\ RLt(stop_crit, step_diff)) =>
         LET e == Epsilon
             f0 == Eval(fun, x_t)
             f1 == Eval(fun, RAdd(x_t, e))
             f2 == Eval(fun, RAdd(x_t, RMul(Two, e)))
             d1 == RDiv(RSub(f1, f0), e)
             d2 == RDiv(RAdd(RSub(f2, RMul(Two, f1)), f0), RMul(e, e))
         IN  /\ FirstDeriv(fun, x_t) = d1
             /\ SecondDeriv(fun, x_t) = d2
             /\ outcome' # "ZeroDivisionError" => x_t' = RSub(x_t, RDiv(d1, d2))
             /\ outcome' = "ZeroDivisionError" => (d2 = Zero /\ x_t' = x_t)
             /\ evals' = evals \cup {x_t, RAdd(x_t, e), RAdd(x_t, RMul(Two, e))}
             /\ UNCHANGED <<entry, fun, start, stop_crit, ret>>]_vars

C10_Witness ==
    /\ entry = "optimize"
    /\ fun.kind = "quad"
    /\ pc = "loop"
    /\ iters = 1
    /\ x_t = RSub(fun.m, RDiv(Epsilon, Two))
    /\ Cardinality(evals) = 3

====
